---- MODULE Spec2Model ----
(***************************************************************************)
(* Model of tracing-rewrite (src/src/lib.rs): EventFormatter::format_event *)
(* and visitor::Visitor.                                                   *)
(*                                                                         *)
(* An Option<T> is a sequence of length at most one: <<>> is None and      *)
(* <<x>> is Some(x).  A text is a sequence of one-character strings.       *)
(***************************************************************************)
EXTENDS Naturals, Sequences, FiniteSets

\* const VISITOR_SIZE: usize, the capacity of the capture buffer
VISITOR_SIZE == 2

\* number of format_event calls that are followed
MaxCalls == 2

----------------------------------------------------------------------------
\* Texts and values

QUOTE == "\""

BACKSLASH == "\\"

\* <str as Debug>::fmt escapes the quote and the backslash
RECURSIVE Escape(_)
Escape(s) ==
    IF s = <<>> THEN <<>>
    ELSE (IF Head(s) \in {QUOTE, BACKSLASH} THEN <<BACKSLASH, Head(s)>> ELSE <<Head(s)>>)
         \o Escape(Tail(s))

Quote(s) == <<QUOTE>> \o Escape(s) \o <<QUOTE>>

\* a field value as the substrate's Value protocol presents it: the Visit
\* method it calls (by type) and the value's text
I64(t) == [type |-> "i64", text |-> t]
Bool(t) == [type |-> "bool", text |-> t]
Str(t) == [type |-> "str", text |-> t]
Dbg(t) == [type |-> "debug", text |-> t]

\* the values of the events: 3, true, "a" and format_args!("x")
Values == <<I64(<<"3">>), Bool(<<"t">>), Str(<<"a">>), Dbg(<<"x">>)>>

\* format!("{value:?}") in record_debug.  Visitor implements record_debug
\* only, so every typed record_* falls back to it with the value as &dyn Debug
DebugFormat(value) ==
    IF value.type = "str" THEN Quote(value.text) ELSE value.text

----------------------------------------------------------------------------
\* Descriptors, fields, events

EVENT == "EVENT"
SPAN == "SPAN"
HINT == "HINT"

is_event(metadata) == metadata.kind = EVENT

is_span(metadata) == metadata.kind = SPAN

\* the identity of the private static FAKE_CALLSITE
FAKE_CALLSITE == 0

FAKE_FIELD_NAME == "foo"

FAKE_META ==
    [name |-> "", target |-> "visitor", level |-> "INFO", file |-> <<>>,
     line |-> <<>>, module_path |-> <<>>,
     fields |-> [names |-> <<FAKE_FIELD_NAME>>, callsite |-> FAKE_CALLSITE],
     kind |-> SPAN]

\* the call sites of the application: identities of 'static Callsite objects
Callsites == 1..4

AllNames == <<"message", "count", "b", "c", "d", "e">>

\* the static Metadata each call site declares
StaticMetadata(cs) ==
    CASE cs = 1 -> [name |-> "event src/lib.rs:218", target |-> "tracing_rewrite::tests",
                    level |-> "ERROR", file |-> <<"src/lib.rs">>, line |-> <<218>>,
                    module_path |-> <<"tracing_rewrite::tests">>,
                    fields |-> [names |-> SubSeq(AllNames, 1, VISITOR_SIZE + 1), callsite |-> 1],
                    kind |-> EVENT]
      [] cs = 2 -> [name |-> "event src/other.rs:42", target |-> "app::other",
                    level |-> "ERROR", file |-> <<"src/other.rs">>, line |-> <<42>>,
                    module_path |-> <<"app::other">>,
                    fields |-> [names |-> <<"message", "count">>, callsite |-> 2],
                    kind |-> EVENT]
      [] cs = 3 -> [name |-> "work", target |-> "app::work",
                    level |-> "INFO", file |-> <<"src/lib.rs">>, line |-> <<7>>,
                    module_path |-> <<>>,
                    fields |-> [names |-> <<"count">>, callsite |-> 3],
                    kind |-> SPAN]
      [] cs = 4 -> [name |-> "enabled src/lib.rs:9", target |-> "app::work",
                    level |-> "WARN", file |-> <<"src/lib.rs">>, line |-> <<9>>,
                    module_path |-> <<"app::work">>,
                    fields |-> [names |-> <<>>, callsite |-> 4],
                    kind |-> HINT]

\* FieldSet::field / Field { i, fields }
Field(fields, i) == [i |-> i, fields |-> fields]

FieldName(field) == field.fields.names[field.i]

\* Event::parent(): Some(id) for an explicit parent only
Root == [tag |-> "Root", id |-> 0]
Current == [tag |-> "Current", id |-> 0]
Explicit(id) == [tag |-> "Explicit", id |-> id]

Parents == {Root, Current, Explicit(2)}

parent(event) == IF event.parent.tag = "Explicit" THEN <<event.parent.id>> ELSE <<>>

\* Event::new: parent is the current context
EventNew(metadata, valueset) ==
    [metadata |-> metadata, fields |-> valueset, parent |-> Current]

\* Event::new_child_of
EventNewChildOf(id, metadata, valueset) ==
    [metadata |-> metadata, fields |-> valueset, parent |-> Explicit(id)]

\* FieldSet::value_set
value_set(fields, values) == [values |-> values, fields |-> fields]

\* ValueSet::record: the entries a visitor is shown, in the order of the
\* value set; an entry of another call site or without a value is skipped
Visited(valueset) ==
    SelectSeq(valueset.values,
              LAMBDA e : e.field.fields.callsite = valueset.fields.callsite
                         /\ e.value # <<>>)

----------------------------------------------------------------------------
\* The events the application emits

\* the values of an event's fields: the fields of the set carry a value, and
\* the types of the values go round Values from the shift on
ValuesOf(d, set, shift) ==
    [j \in 1..d |-> IF j \in set THEN <<Values[((j + shift) % Len(Values)) + 1]>> ELSE <<>>]

\* the order in which a value set lists its entries: declaration order, or
\* (the value set of call site 2 is built by hand) the reverse
Orders(cs, d) ==
    {[j \in 1..d |-> j]} \cup (IF cs = 2 THEN {[j \in 1..d |-> d + 1 - j]} ELSE {})

EventsOf(cs) ==
    LET md == StaticMetadata(cs)
        d == Len(md.fields.names)
    IN {[metadata |-> md,
         fields |-> value_set(md.fields,
                              [j \in 1..d |-> [field |-> Field(md.fields, ord[j]),
                                               value |-> vals[j]]]),
         parent |-> p] :
           vals \in {ValuesOf(d, set, shift) : set \in SUBSET (1..d),
                                               shift \in 0..(Len(Values) - 1)},
           ord \in Orders(cs, d), p \in Parents}

\* the span that is current when the event is emitted
Spans == {<<>>, <<1>>}

\* the decision functions T: Fn(&Metadata<'static>) -> Option<Level>
Checks == {"never", "test", "always"}

check(c, metadata) ==
    CASE c = "never" -> <<>>
      [] c = "test" -> IF metadata.file = <<"src/lib.rs">> /\ metadata.level = "ERROR"
                       THEN <<"WARN">> ELSE <<>>
      [] c = "always" -> <<"INFO">>

----------------------------------------------------------------------------
\* visitor::Visitor

\* Visitor::new
VisitorNew ==
    [index |-> 0,
     values |-> [j \in 1..VISITOR_SIZE |->
                   [field |-> Field(FAKE_META.fields, 1), value |-> <<>>]]]

\* the bounds check of self.values[self.index]
InBounds(visitor) == visitor.index < VISITOR_SIZE

\* record_debug without self.index += 1
record_debugNoAdvance(visitor, field, value) ==
    [index |-> visitor.index,
     values |-> [visitor.values EXCEPT ![visitor.index + 1] =
                   [field |-> field, value |-> <<DebugFormat(value)>>]]]

\* Visitor::record_debug, when the index is in bounds
record_debug(visitor, field, value) ==
    [index |-> visitor.index + 1,
     values |-> [visitor.values EXCEPT ![visitor.index + 1] =
                   [field |-> field, value |-> <<DebugFormat(value)>>]]]

\* get_values with the slots in reverse
get_valuesReversed(visitor) ==
    [j \in 1..VISITOR_SIZE |->
       [field |-> visitor.values[VISITOR_SIZE + 1 - j].field,
        value |-> IF visitor.values[VISITOR_SIZE + 1 - j].value = <<>> THEN <<>>
                  ELSE <<Str(visitor.values[VISITOR_SIZE + 1 - j].value[1])>>]]

\* Visitor::get_values: each String is presented as a &dyn Value, a str
get_values(visitor) ==
    [j \in 1..VISITOR_SIZE |->
       [field |-> visitor.values[j].field,
        value |-> IF visitor.values[j].value = <<>> THEN <<>>
                  ELSE <<Str(visitor.values[j].value[1])>>]]

----------------------------------------------------------------------------
\* The downstream formatter F: FormatEvent

\* the field formatter of fmt::format(): a str is written with {:?}, but the
\* message with {}; every other value with {:?}
Render(field, value) ==
    IF value.type = "str"
    THEN IF FieldName(field) = "message" THEN value.text ELSE Quote(value.text)
    ELSE value.text

\* the fields the downstream formatter is shown when it records the event
Shown(ev) ==
    LET vis == Visited(ev.fields)
    IN [j \in 1..Len(vis) |->
          [field |-> vis[j].field, text |-> Render(vis[j].field, vis[j].value[1])]]

\* the span an ancestry lookup finds for the event
EventSpan(ev, current) ==
    CASE ev.parent.tag = "Root" -> <<>>
      [] ev.parent.tag = "Current" -> current
      [] ev.parent.tag = "Explicit" -> <<ev.parent.id>>

\* what the downstream formatter writes for an event
Output(ev, current) ==
    [level |-> ev.metadata.level, name |-> ev.metadata.name,
     target |-> ev.metadata.target, file |-> ev.metadata.file,
     line |-> ev.metadata.line, module_path |-> ev.metadata.module_path,
     fields |-> [j \in 1..Len(Shown(ev)) |->
                   [name |-> FieldName(Shown(ev)[j].field), text |-> Shown(ev)[j].text]],
     span |-> EventSpan(ev, current)]

Results == {"Ok", "Err"}

----------------------------------------------------------------------------
\* State

VARIABLES
    i_really_want_memory_leak,  \* the cargo feature of the build
    checkfn,          \* self.check
    pc,               \* position of the thread in format_event
    calls,            \* format_event calls started
    event,            \* the event argument
    current_span,     \* the span current in ctx
    level,            \* (self.check)(metadata)
    metadata,         \* the leaked Box<Metadata>: Option of [ptr, md]
    heap,             \* addresses of the live reconstructed descriptors
    visitor,          \* Option of the capture buffer
    pos,              \* entries event.record has visited
    handed,           \* Option of the event the downstream formatter is given
    handed_original,  \* the downstream formatter is given the event argument itself
    res,              \* Option of the downstream formatter's result
    ret,              \* Option of format_event's result
    panic,            \* Option of the panic that ended the call
    downstream_calls, \* downstream invocations of this call
    call_allocs,      \* descriptors this call allocated
    call_frees,       \* descriptors this call freed
    overridden_returned,  \* overridden calls that returned
    panicked_calls    \* calls that panicked

vars == <<i_really_want_memory_leak, checkfn, pc, calls, event, current_span, level,
          metadata, heap, visitor, pos, handed, handed_original, res, ret, panic,
          downstream_calls, call_allocs, call_frees, overridden_returned,
          panicked_calls>>

config == <<i_really_want_memory_leak, checkfn>>

counters == <<overridden_returned, panicked_calls>>

\* no event: the thread is not inside format_event
NoEvent == EventNew(FAKE_META, value_set(FAKE_META.fields, <<>>))

Init ==
    /\ i_really_want_memory_leak \in BOOLEAN
    /\ checkfn \in Checks
    /\ pc = "idle"
    /\ calls = 0
    /\ event = NoEvent
    /\ current_span = <<>>
    /\ level = <<>>
    /\ metadata = <<>>
    /\ heap = {}
    /\ visitor = <<>>
    /\ pos = 0
    /\ handed = <<>>
    /\ handed_original = FALSE
    /\ res = <<>>
    /\ ret = <<>>
    /\ panic = <<>>
    /\ downstream_calls = 0
    /\ call_allocs = 0
    /\ call_frees = 0
    /\ overridden_returned = 0
    /\ panicked_calls = 0

\* a call starts when the thread is not inside format_event
Callable == pc \in {"idle", "done", "panicked"} /\ calls < MaxCalls

\* format_event is called with an event; self.check is applied to its metadata
Enter(ev, cur) ==
    /\ Callable
    /\ calls' = calls + 1
    /\ event' = ev
    /\ current_span' = cur
    /\ level' = check(checkfn, ev.metadata)
    /\ pc' = "checked"
    /\ res' = <<>>
    /\ ret' = <<>>
    /\ panic' = <<>>
    /\ downstream_calls' = 0
    /\ call_allocs' = 0
    /\ call_frees' = 0
    /\ UNCHANGED <<config, metadata, heap, visitor, pos, handed, handed_original, counters>>

\* what the running call leaves alone between its entry and its end
frame == <<config, calls, level>>

\* the arguments of the call
args == <<event, current_span>>

\* format_event is left, by return or by unwinding: its frame is gone
PopFrame ==
    /\ event' = NoEvent
    /\ current_span' = <<>>
    /\ metadata' = <<>>
    /\ visitor' = <<>>
    /\ pos' = 0
    /\ handed' = <<>>
    /\ handed_original' = FALSE

\* PassThrough with the event rebuilt instead of handed on
PassThroughRebuilt ==
    /\ pc = "checked"
    /\ level = <<>>
    /\ pc' = "downstream"
    /\ handed' = <<EventNew(event.metadata, event.fields)>>
    /\ handed_original' = FALSE
    /\ UNCHANGED <<frame, args, metadata, heap, visitor, pos, res, ret, panic,
                   downstream_calls, call_allocs, call_frees, counters>>

\* check returned None: the else branch, the downstream call on the event itself
PassThrough ==
    /\ pc = "checked"
    /\ level = <<>>
    /\ pc' = "downstream"
    /\ handed' = <<event>>
    /\ handed_original' = TRUE
    /\ UNCHANGED <<frame, args, metadata, heap, visitor, pos, res, ret, panic,
                   downstream_calls, call_allocs, call_frees, counters>>

\* check returned Some(level) and the kind is neither event nor span:
\* unreachable!() panics
KindUnreachable ==
    /\ pc = "checked"
    /\ level # <<>>
    /\ ~is_event(event.metadata) /\ ~is_span(event.metadata)
    /\ pc' = "panicked"
    /\ panic' = <<"unreachable">>
    /\ panicked_calls' = panicked_calls + 1
    /\ PopFrame
    /\ UNCHANGED <<frame, heap, res, ret, downstream_calls, call_allocs, call_frees,
                   overridden_returned>>

\* NewMetadata with the level of the original descriptor
NewMetadataOldLevel(md, lvl, kind) ==
    [name |-> md.name, target |-> md.target, level |-> md.level, file |-> md.file,
     line |-> md.line, module_path |-> md.module_path,
     fields |-> md.fields, kind |-> kind]

\* Metadata::new(name, target, level, file, line, module_path, cloned, kind)
NewMetadata(md, lvl, kind) ==
    [name |-> md.name, target |-> md.target, level |-> lvl, file |-> md.file,
     line |-> md.line, module_path |-> md.module_path,
     fields |-> md.fields, kind |-> kind]

\* check returned Some(level): the descriptor is built and leaked, the visitor
\* is created, and event.record starts
Override ==
    /\ pc = "checked"
    /\ level # <<>>
    /\ is_event(event.metadata) \/ is_span(event.metadata)
    /\ LET kind == IF is_event(event.metadata) THEN EVENT ELSE SPAN
       IN metadata' = <<[ptr |-> calls,
                         md |-> NewMetadata(event.metadata, level[1], kind)]>>
    /\ heap' = heap \cup {calls}
    /\ call_allocs' = call_allocs + 1
    /\ visitor' = <<VisitorNew>>
    /\ pos' = 0
    /\ pc' = "record"
    /\ UNCHANGED <<frame, args, handed, handed_original, res, ret, panic,
                   downstream_calls, call_frees, counters>>

\* event.record(&mut visitor): the value set shows the visitor its next
\* entry, and record_debug stores it
RecordDebug ==
    /\ pc = "record"
    /\ pos < Len(Visited(event.fields))
    /\ InBounds(visitor[1])
    /\ LET e == Visited(event.fields)[pos + 1]
       IN visitor' = <<record_debug(visitor[1], e.field, e.value[1])>>
    /\ pos' = pos + 1
    /\ UNCHANGED <<frame, args, pc, metadata, heap, handed, handed_original, res, ret,
                   panic, downstream_calls, call_allocs, call_frees, counters>>

\* record_debug with self.index = N: self.values[self.index] panics, and the
\* panic unwinds out of format_event; the leaked descriptor stays allocated
RecordDebugOutOfBounds ==
    /\ pc = "record"
    /\ pos < Len(Visited(event.fields))
    /\ ~InBounds(visitor[1])
    /\ pc' = "panicked"
    /\ panic' = <<"index out of bounds">>
    /\ panicked_calls' = panicked_calls + 1
    /\ PopFrame
    /\ UNCHANGED <<frame, heap, res, ret, downstream_calls, call_allocs, call_frees,
                   overridden_returned>>

\* the event handed to the downstream formatter: get_values, value_set on the
\* original descriptor's fields, Event::new_child_of or Event::new
Rebuild(ev, md, vis) ==
    LET values == get_values(vis)
        valueset == value_set(ev.metadata.fields, values)
    IN IF parent(ev) # <<>>
       THEN EventNewChildOf(parent(ev)[1], md, valueset)
       ELSE EventNew(md, valueset)

\* event.record has returned: the new event is built and the downstream
\* formatter is called with it
CallDownstream ==
    /\ pc = "record"
    /\ pos = Len(Visited(event.fields))
    /\ handed' = <<Rebuild(event, metadata[1].md, visitor[1])>>
    /\ handed_original' = FALSE
    /\ pc' = "downstream"
    /\ UNCHANGED <<frame, args, metadata, heap, visitor, pos, res, ret, panic,
                   downstream_calls, call_allocs, call_frees, counters>>

\* the downstream formatter returns its std::fmt::Result
DownstreamReturns(r) ==
    /\ pc = "downstream"
    /\ res' = <<r>>
    /\ downstream_calls' = downstream_calls + 1
    /\ pc' = "returned"
    /\ UNCHANGED <<frame, args, metadata, heap, visitor, pos, handed, handed_original,
                   ret, panic, call_allocs, call_frees, counters>>

\* the drop compiled in when the feature is enabled
DroppedWhenEnabled(leak) == leak

\* #[cfg(not(feature = "i_really_want_memory_leak"))] drop(Box::from_raw(metadata))
Dropped(leak) == ~leak

\* ReturnOverridden with the downstream error swallowed
ReturnOverriddenOk ==
    /\ pc = "returned"
    /\ level # <<>>
    /\ IF Dropped(i_really_want_memory_leak)
       THEN /\ heap' = heap \ {metadata[1].ptr}
            /\ call_frees' = call_frees + 1
       ELSE UNCHANGED <<heap, call_frees>>
    /\ ret' = <<"Ok">>
    /\ pc' = "done"
    /\ overridden_returned' = overridden_returned + 1
    /\ PopFrame
    /\ UNCHANGED <<frame, res, panic, downstream_calls, call_allocs, panicked_calls>>

\* the overridden call ends: the descriptor is dropped or not, res is returned
ReturnOverridden ==
    /\ pc = "returned"
    /\ level # <<>>
    /\ IF Dropped(i_really_want_memory_leak)
       THEN /\ heap' = heap \ {metadata[1].ptr}
            /\ call_frees' = call_frees + 1
       ELSE UNCHANGED <<heap, call_frees>>
    /\ ret' = res
    /\ pc' = "done"
    /\ overridden_returned' = overridden_returned + 1
    /\ PopFrame
    /\ UNCHANGED <<frame, res, panic, downstream_calls, call_allocs, panicked_calls>>

\* the call without override ends: the downstream result is the call's result
ReturnPassThrough ==
    /\ pc = "returned"
    /\ level = <<>>
    /\ ret' = res
    /\ pc' = "done"
    /\ PopFrame
    /\ UNCHANGED <<frame, heap, res, panic, downstream_calls, call_allocs, call_frees,
                   counters>>

FormatEvent ==
    \E cs \in Callsites : \E ev \in EventsOf(cs) : \E cur \in Spans : Enter(ev, cur)

Next ==
    \/ FormatEvent
    \/ PassThrough
    \/ KindUnreachable
    \/ Override
    \/ RecordDebug
    \/ RecordDebugOutOfBounds
    \/ CallDownstream
    \/ \E r \in Results : DownstreamReturns(r)
    \/ ReturnOverridden
    \/ ReturnPassThrough

Spec == Init /\ [][Next]_vars

----------------------------------------------------------------------------
\* Properties

\* the downstream formatter holds an event
Handed == pc \in {"downstream", "returned"}

Overridden == level # <<>>

\* the field handles the downstream formatter is shown, in order
ShownFields(ev) == [j \in 1..Len(Shown(ev)) |-> Shown(ev)[j].field]

\* the values the original event carries
NumValues == Len(Visited(event.fields))

\* C1: when check returns None, the downstream formatter is called with the
\* event argument itself, no descriptor and no visitor is built, the output is
\* that of the downstream formatter on the event, and its result is returned.
C1_PassThrough ==
    /\ (Handed /\ ~Overridden) =>
          /\ handed = <<event>>
          /\ handed_original
          /\ metadata = <<>>
          /\ visitor = <<>>
          /\ call_allocs = 0
          /\ Output(handed[1], current_span) = Output(event, current_span)
    /\ (pc = "done" /\ ~Overridden) =>
          /\ ret = res
          /\ res # <<>>
          /\ downstream_calls = 1
          /\ call_allocs = 0
          /\ call_frees = 0

C1_Witness ==
    /\ pc = "returned"
    /\ ~Overridden
    /\ handed = <<event>>
    /\ event.parent = Root
    /\ NumValues > 0
    /\ res = <<"Err">>

\* C2: when check returns Some(L), the descriptor of the event handed to the
\* downstream formatter has level L and the name, target, file, line, module
\* path, field names, call site and kind of the original descriptor.
C2_Descriptor ==
    (Handed /\ Overridden) =>
        LET new == handed[1].metadata
            old == event.metadata
        IN /\ level = check(checkfn, old)
           /\ new.level = level[1]
           /\ new.name = old.name
           /\ new.target = old.target
           /\ new.file = old.file
           /\ new.line = old.line
           /\ new.module_path = old.module_path
           /\ new.fields.names = old.fields.names
           /\ new.fields.callsite = old.fields.callsite
           /\ new.kind = old.kind
           /\ new = metadata[1].md

C2_Witness ==
    /\ pc = "downstream"
    /\ level = <<"WARN">>
    /\ event.metadata.level = "ERROR"
    /\ handed[1].metadata.level = "WARN"
    /\ handed[1].metadata.name = event.metadata.name

\* C4: for an overridden event with at most N fields carrying a value, the
\* fields the downstream formatter is shown on the rebuilt event are the fields
\* that carry a value on the original event, in the order the original value
\* set visits them.
C4_SameFields ==
    (Handed /\ Overridden /\ NumValues <= VISITOR_SIZE) =>
        ShownFields(handed[1]) = ShownFields(event)

\* N fields carry a value, a declared one does not
C4_Witness ==
    /\ pc = "downstream"
    /\ Overridden
    /\ NumValues = VISITOR_SIZE
    /\ Len(event.fields.values) > VISITOR_SIZE
    /\ ShownFields(handed[1]) = ShownFields(event)

\* C3: for an overridden event with more than N fields carrying a value the
\* call does not crash: a record call with the cursor at N changes nothing, the
\* downstream formatter is called, and it is shown the first N visited fields.
C3_StepTruncates ==
    (pc = "record" /\ NumValues > VISITOR_SIZE) =>
        /\ pc' \in {"record", "downstream"}
        /\ (visitor[1].index >= VISITOR_SIZE /\ pc' = "record") => visitor' = visitor
        /\ pc' = "downstream" =>
              /\ visitor[1].index = VISITOR_SIZE
              /\ [j \in 1..VISITOR_SIZE |-> visitor[1].values[j].field]
                   = SubSeq(ShownFields(event), 1, VISITOR_SIZE)

\* C3: every step of a call on such an event truncates, none crashes.
C3_Truncates == [][C3_StepTruncates]_vars

\* C5: the text the downstream formatter renders for each field of the rebuilt
\* event is the text it renders for that field of the original event.
C5_SameText ==
    (Handed /\ Overridden) =>
        /\ Len(Shown(handed[1])) = Len(Shown(event))
        /\ \A j \in 1..Len(Shown(event)) :
              Shown(handed[1])[j].text = Shown(event)[j].text

\* C6, as claimed: in a build without the feature, format_event never frees
\* the descriptor.
C6_DefaultLeaks ==
    ~i_really_want_memory_leak => call_frees = 0

\* C6, amended: the descriptor is freed when an overridden call returns in a
\* build without the feature i_really_want_memory_leak, which is the default;
\* it is never freed in a build with the feature, and never before the return.
C6_DefaultFrees ==
    /\ i_really_want_memory_leak => call_frees = 0
    /\ pc # "done" => call_frees = 0
    /\ (pc = "done" /\ Overridden) =>
          (call_frees = 1 <=> ~i_really_want_memory_leak)
    /\ (pc = "done" /\ ~Overridden) => call_frees = 0

C6_Witness ==
    /\ pc = "done"
    /\ Overridden
    /\ ~i_really_want_memory_leak
    /\ call_allocs = 1
    /\ call_frees = 1
    /\ heap = {}

\* C7: an ancestry lookup finds for the rebuilt event the span it finds for
\* the original event.
C7_SameParent ==
    (Handed /\ Overridden) =>
        EventSpan(handed[1], current_span) = EventSpan(event, current_span)

\* C8: a call on an event of kind event or span with at most N fields carrying
\* a value never panics, calls the downstream formatter once, and returns the
\* result of that call; without the feature the descriptor is freed at the
\* return, whatever the result.
C8_StepDelegates ==
    (/\ pc \in {"checked", "record", "downstream", "returned"}
     /\ is_event(event.metadata) \/ is_span(event.metadata)
     /\ NumValues <= VISITOR_SIZE) =>
        /\ pc' # "panicked"
        /\ downstream_calls' = IF pc = "downstream" THEN 1 ELSE downstream_calls
        /\ pc = "downstream" => downstream_calls = 0
        /\ pc' = "done" =>
              /\ res # <<>>
              /\ ret' = res
              /\ res' = res
              /\ downstream_calls = 1
              /\ (Overridden /\ ~i_really_want_memory_leak) =>
                    /\ metadata[1].ptr \in heap
                    /\ heap' = heap \ {metadata[1].ptr}
                    /\ call_frees' = 1

\* C8: every step of a call on such an event delegates, none panics.
C8_Delegates == [][C8_StepDelegates]_vars

C8_Witness ==
    /\ pc = "done"
    /\ Overridden
    /\ ~i_really_want_memory_leak
    /\ res = <<"Err">>
    /\ ret = <<"Err">>
    /\ downstream_calls = 1
    /\ call_frees = 1

\* C9: every call that requests an override of an event or span allocates one
\* descriptor and, without the feature, frees it once.
C9_OneCycle ==
    (pc \in {"done", "panicked"} /\ Overridden /\ panic # <<"unreachable">>) =>
        /\ call_allocs = 1
        /\ ~i_really_want_memory_leak => call_frees = 1

\* the rest of C9: the descriptor is live from its allocation to the return of
\* the downstream formatter, and the calls that returned left no descriptor
\* without the feature and one each with it
C9_Lifetime ==
    /\ (pc \in {"record", "downstream", "returned"} /\ Overridden) =>
          /\ metadata[1].ptr \in heap
          /\ call_allocs = 1
          /\ call_frees = 0
    /\ (pc \in {"idle", "done"} /\ panicked_calls = 0) =>
          Cardinality(heap) = IF i_really_want_memory_leak THEN overridden_returned ELSE 0
    /\ call_frees <= 1
    /\ call_allocs <= 1

\* C10: with k <= N entries recorded, get_values has the recorded pairs in
\* slots 1..k, in call order and with the call site of the new descriptor and
\* of the value set, and the placeholder of FAKE_CALLSITE without a value in
\* slots k+1..N; FAKE_CALLSITE is the call site of no event, and the value set
\* of the new event delivers the k recorded pairs.
C10_Slots ==
    (pc \in {"record", "downstream", "returned"} /\ Overridden) =>
        LET k == visitor[1].index
            slots == get_values(visitor[1])
            seen == Visited(event.fields)
        IN /\ k = pos
           /\ k <= VISITOR_SIZE
           /\ k <= Len(seen)
           /\ Len(slots) = VISITOR_SIZE
           /\ \A j \in 1..k :
                 /\ slots[j].field = seen[j].field
                 /\ slots[j].value = <<Str(DebugFormat(seen[j].value[1]))>>
                 /\ slots[j].field.fields.callsite = metadata[1].md.fields.callsite
                 /\ slots[j].field.fields.callsite = event.metadata.fields.callsite
           /\ \A j \in (k + 1)..VISITOR_SIZE :
                 /\ slots[j].field = Field(FAKE_META.fields, 1)
                 /\ slots[j].value = <<>>
                 /\ slots[j].field.fields.callsite \notin Callsites
           /\ Visited(value_set(event.metadata.fields, slots)) = SubSeq(slots, 1, k)
           /\ Handed => /\ handed[1].fields = value_set(event.metadata.fields, slots)
                        /\ handed[1].fields.fields.callsite
                             = handed[1].metadata.fields.callsite

C10_Witness ==
    /\ pc = "downstream"
    /\ Overridden
    /\ visitor[1].index = 1
    /\ VISITOR_SIZE > 1
    /\ Len(Shown(handed[1])) = 1
    /\ get_values(visitor[1])[2].field.fields.callsite = FAKE_CALLSITE

====
